---- MODULE Spec2Model ----
(***************************************************************************)
(* TraceCycle: the WasteTrace ledger contract                              *)
(* (blockchain/contracts/WasteTrace.sol) as a state machine, and the web   *)
(* client that writes to it: the wallet session of Web3Context.jsx and the *)
(* Dashboard's WebSocket handler that turns detection events into          *)
(* createWaste transactions.                                               *)
(*                                                                         *)
(* One action per external function of the contract.  A transaction is    *)
(* atomic: a failed require reverts the whole call, so a failing call      *)
(* leaves storage and the event log as they were and only its outcome      *)
(* (the revert reason) is observable, recorded here in `last`.             *)
(***************************************************************************)
EXTENDS Integers, Sequences, FiniteSets

\* ---------------------------------------------------------------- bounds
\* The most records created in a run (count is a uint256 in the contract).
MaxCount == 2
\* The most events kept in the log of a run.
MaxEvents == 3
\* The latest block timestamp of a run.
MaxTime == 1
\* The most initializeContract calls awaiting their signer at one time.
MaxInits == 1
\* The most detection events a run delivers to the Dashboard.
MaxLogs == 2
\* The most page reloads (chainChanged notifications) of a run.
MaxReloads == 1
\* The most WebSocket messages a run of the logs buffer receives.
MaxMessages == 3

\* ------------------------------------------------------- values and inputs
\* address(0): the default value of an address in storage.  No transaction
\* is signed by it, so it is a possible `_to` but never a msg.sender.
ZeroAddress == 0
Senders == {1, 2}
Addresses == Senders \cup {ZeroAddress}

\* string inputs of createWaste (_type) and updateStatus (_status)
WasteTypes == {"Plastic", "E-Waste"}
Generated == "Generated"
Statuses == {Generated, "Collected"}

\* the keys of the mapping that the model holds: 0, every id that can
\* exist, and one beyond
Ids == 0 .. (MaxCount + 1)

\* outcomes of a call: success, or the reason string of the failed require
Ok == "Ok"
NotFound == "Waste not found"
Unauthorized == "Not owner"

VARIABLES
    wastes,   \* mapping(uint256 => Waste) public wastes
    count,    \* uint256 public count
    events,   \* the contract's event log, oldest first
    now,      \* block.timestamp of the latest block
    last      \* the latest call and its outcome (the transaction receipt)

VARIABLES
    wallet,          \* window.ethereum: the account it exposes to the page
    currentAccount,  \* Web3Provider state currentAccount ("" is ZeroAddress)
    contract,        \* Web3Provider state contract: null (ZeroAddress) or
                     \* the address of the signer the Contract was built on
    checking,        \* checkWalletIsConnected awaits eth_accounts
    initializing,    \* initializeContract calls awaiting provider.getSigner()
    autoLog,         \* Dashboard state autoLog
    ws,              \* the WebSocket of the Dashboard's effect
    handler,         \* what ws.onmessage closed over when the effect ran
    logs,            \* Dashboard state logs, newest first
    pending,         \* contract.createWaste transactions awaiting tx.wait()
    output,          \* the latest alert or console.error of a create handler
    page,            \* how often the page has been reloaded
    mounted,         \* the Dashboard component is mounted
    sockets          \* WebSockets the Dashboard created and nothing closed

client == <<wallet, currentAccount, contract, checking, initializing,
            autoLog, ws, handler, logs, pending, output, page, mounted,
            sockets>>
vars == <<wastes, count, events, now, last, client>>
ledger == <<wastes, count, events, now>>

\* struct Waste, and the value every unwritten slot of the mapping reads as
Waste(id, wasteType, status, owner, timestamp) ==
    [id |-> id, wasteType |-> wasteType, status |-> status,
     owner |-> owner, timestamp |-> timestamp]

ZeroWaste == Waste(0, "", "", ZeroAddress, 0)

\* event WasteCreated(uint256 id, address owner)
WasteCreated(id, owner) ==
    [kind |-> "WasteCreated", id |-> id, owner |-> owner]

\* event StatusUpdated(uint256 id, string status)
StatusUpdated(id, status) ==
    [kind |-> "StatusUpdated", id |-> id, status |-> status]

\* event WasteTransferred(uint256 id, address from, address to)
WasteTransferred(id, from, to) ==
    [kind |-> "WasteTransferred", id |-> id, from |-> from, to |-> to]

\* the receipt of a call
Call(op, sender, id, str, to, outcome) ==
    [op |-> op, sender |-> sender, id |-> id, str |-> str, to |-> to,
     outcome |-> outcome]

\* function getWaste(uint256 _id) public view returns (Waste memory)
getWaste(id) == wastes[id]

\* ------------------------------------------------------------------ Init
\* a freshly deployed contract: empty mapping, count = 0, no events
Init ==
    /\ wastes = [i \in Ids |-> ZeroWaste]
    /\ count = 0
    /\ events = << >>
    /\ now \in 1 .. MaxTime
    /\ last = Call("deploy", ZeroAddress, 0, "", ZeroAddress, Ok)

\* ------------------------------------------------------------- operations
\* createWaste without `count++`: the record is stored under the old count
createWasteNoIncrement(sender, type, t) ==
    /\ count < MaxCount
    /\ Len(events) < MaxEvents
    /\ count' = count
    /\ wastes' = [wastes EXCEPT ![count] =
                      Waste(count, type, Generated, sender, t)]
    /\ events' = Append(events, WasteCreated(count, sender))
    /\ now' = t
    /\ last' = Call("createWaste", sender, 0, type, ZeroAddress, Ok)

\* createWaste with the struct's two string arguments in the wrong order
createWasteSwapped(sender, type, t) ==
    /\ count < MaxCount
    /\ Len(events) < MaxEvents
    /\ count' = count + 1
    /\ wastes' = [wastes EXCEPT ![count'] =
                      Waste(count', Generated, type, sender, t)]
    /\ events' = Append(events, WasteCreated(count', sender))
    /\ now' = t
    /\ last' = Call("createWaste", sender, 0, type, ZeroAddress, Ok)

\* createWaste storing the record before the increment (count++ moved last)
createWastePostIncrement(sender, type, t) ==
    /\ count < MaxCount
    /\ Len(events) < MaxEvents
    /\ count' = count + 1
    /\ wastes' = [wastes EXCEPT ![count] =
                      Waste(count, type, Generated, sender, t)]
    /\ events' = Append(events, WasteCreated(count', sender))
    /\ now' = t
    /\ last' = Call("createWaste", sender, 0, type, ZeroAddress, Ok)

\* function createWaste(string memory _type) public, called by `sender` in a
\* block of timestamp t
createWaste(sender, type, t) ==
    /\ count < MaxCount
    /\ Len(events) < MaxEvents
    /\ count' = count + 1
    /\ wastes' = [wastes EXCEPT ![count'] =
                      Waste(count', type, Generated, sender, t)]
    /\ events' = Append(events, WasteCreated(count', sender))
    /\ now' = t
    /\ last' = Call("createWaste", sender, 0, type, ZeroAddress, Ok)

\* updateStatus without the owner require (anyone may update)
updateStatusCheckAnyone(sender, id) ==
    IF wastes[id].id = 0 THEN NotFound ELSE Ok

\* updateStatus with its two requires in the other order
updateStatusCheckOwnerFirst(sender, id) ==
    IF wastes[id].owner # sender THEN Unauthorized
    ELSE IF wastes[id].id = 0 THEN NotFound
    ELSE Ok

\* the two requires of updateStatus, in the order the code evaluates them
updateStatusCheck(sender, id) ==
    IF wastes[id].id = 0 THEN NotFound
    ELSE IF wastes[id].owner # sender THEN Unauthorized
    ELSE Ok

\* updateStatus assigning the new string to the wrong field of the struct
updateStatusWrongField(sender, id, status) ==
    LET outcome == updateStatusCheck(sender, id) IN
    /\ last' = Call("updateStatus", sender, id, status, ZeroAddress, outcome)
    /\ IF outcome = Ok
       THEN /\ Len(events) < MaxEvents
            /\ wastes' = [wastes EXCEPT ![id].wasteType = status]
            /\ events' = Append(events, StatusUpdated(id, status))
            /\ UNCHANGED <<count, now>>
       ELSE UNCHANGED ledger

\* updateStatus without its emit
updateStatusSilent(sender, id, status) ==
    LET outcome == updateStatusCheck(sender, id) IN
    /\ last' = Call("updateStatus", sender, id, status, ZeroAddress, outcome)
    /\ IF outcome = Ok
       THEN /\ Len(events) < MaxEvents
            /\ wastes' = [wastes EXCEPT ![id].status = status]
            /\ UNCHANGED <<count, events, now>>
       ELSE UNCHANGED ledger

\* updateStatus returning early when the status is the one already stored
updateStatusDedup(sender, id, status) ==
    LET outcome == updateStatusCheck(sender, id) IN
    /\ last' = Call("updateStatus", sender, id, status, ZeroAddress, outcome)
    /\ IF outcome = Ok /\ wastes[id].status # status
       THEN /\ Len(events) < MaxEvents
            /\ wastes' = [wastes EXCEPT ![id].status = status]
            /\ events' = Append(events, StatusUpdated(id, status))
            /\ UNCHANGED <<count, now>>
       ELSE UNCHANGED ledger

\* function updateStatus(uint256 _id, string memory _status) public
updateStatus(sender, id, status) ==
    LET outcome == updateStatusCheck(sender, id) IN
    /\ last' = Call("updateStatus", sender, id, status, ZeroAddress, outcome)
    /\ IF outcome = Ok
       THEN /\ Len(events) < MaxEvents
            /\ wastes' = [wastes EXCEPT ![id].status = status]
            /\ events' = Append(events, StatusUpdated(id, status))
            /\ UNCHANGED <<count, now>>
       ELSE UNCHANGED ledger

\* the require of transferWaste
transferWasteCheck(sender, id) ==
    IF wastes[id].owner # sender THEN Unauthorized ELSE Ok

\* transferWaste emitting its event without writing the new owner
transferWasteNoWrite(sender, id, to) ==
    LET outcome == transferWasteCheck(sender, id) IN
    /\ last' = Call("transferWaste", sender, id, "", to, outcome)
    /\ IF outcome = Ok
       THEN /\ Len(events) < MaxEvents
            /\ events' = Append(events, WasteTransferred(id, sender, to))
            /\ UNCHANGED <<wastes, count, now>>
       ELSE UNCHANGED ledger

\* transferWaste storing a fresh struct for the new owner instead of
\* assigning the owner field
transferWasteRewrites(sender, id, to) ==
    LET outcome == transferWasteCheck(sender, id) IN
    /\ last' = Call("transferWaste", sender, id, "", to, outcome)
    /\ IF outcome = Ok
       THEN /\ Len(events) < MaxEvents
            /\ wastes' = [wastes EXCEPT ![id] =
                   Waste(id, wastes[id].wasteType, Generated, to, now)]
            /\ events' = Append(events, WasteTransferred(id, sender, to))
            /\ UNCHANGED <<count, now>>
       ELSE UNCHANGED ledger

\* transferWaste that also puts the status back to "Generated"
transferWasteResetsStatus(sender, id, to) ==
    LET outcome == transferWasteCheck(sender, id) IN
    /\ last' = Call("transferWaste", sender, id, "", to, outcome)
    /\ IF outcome = Ok
       THEN /\ Len(events) < MaxEvents
            /\ wastes' = [wastes EXCEPT ![id].owner = to,
                                        ![id].status = Generated]
            /\ events' = Append(events, WasteTransferred(id, sender, to))
            /\ UNCHANGED <<count, now>>
       ELSE UNCHANGED ledger

\* transferWaste whose event reads `from` out of storage after the write
transferWasteFromAfterWrite(sender, id, to) ==
    LET outcome == transferWasteCheck(sender, id) IN
    /\ last' = Call("transferWaste", sender, id, "", to, outcome)
    /\ IF outcome = Ok
       THEN /\ Len(events) < MaxEvents
            /\ wastes' = [wastes EXCEPT ![id].owner = to]
            /\ events' = Append(events, WasteTransferred(id, to, to))
            /\ UNCHANGED <<count, now>>
       ELSE UNCHANGED ledger

\* function transferWaste(uint256 _id, address _to) public
transferWaste(sender, id, to) ==
    LET outcome == transferWasteCheck(sender, id) IN
    /\ last' = Call("transferWaste", sender, id, "", to, outcome)
    /\ IF outcome = Ok
       THEN /\ Len(events) < MaxEvents
            /\ wastes' = [wastes EXCEPT ![id].owner = to]
            /\ events' = Append(events, WasteTransferred(id, sender, to))
            /\ UNCHANGED <<count, now>>
       ELSE UNCHANGED ledger

\* the ids a caller names: 0, every existing id, and the first absent one
\* (every absent id reads as the same zero record)
CallIds == 0 .. (count + 1)

CreateWaste == \E s \in Senders, ty \in WasteTypes, t \in now .. MaxTime :
                   createWaste(s, ty, t) /\ UNCHANGED client

UpdateStatus == \E s \in Senders, id \in CallIds, st \in Statuses :
                    updateStatus(s, id, st) /\ UNCHANGED client

TransferWaste == \E s \in Senders, id \in CallIds, to \in Addresses :
                     transferWaste(s, id, to) /\ UNCHANGED client

Next == CreateWaste \/ UpdateStatus \/ TransferWaste

\* ------------------------------------------------------------ the client
\* alert("Waste created on Blockchain!") of handleCreateMockWaste
AlertCreated == "alert: Waste created on Blockchain!"
\* alert("Error creating waste") of handleCreateMockWaste
AlertError == "alert: Error creating waste"
\* console.error("Auto-log error:", error) of handleAutoCreateWaste
AutoLogError == "console.error: Auto-log error:"

\* a field that a detection event does not carry reads as undefined
Undefined == "<undefined>"

\* the detection events the backend pushes: { event_type, class_name }
DetectionEvents ==
    { [event_type |-> "waste_detected", class_name |-> "Bottle"],
      [event_type |-> "waste_detected", class_name |-> Undefined],
      [event_type |-> "waste_classified", class_name |-> ""],
      [event_type |-> "frame_processed", class_name |-> "Bottle"] }

\* data.events of one WebSocket message of type 'event'
Batches ==
    {<<e>> : e \in DetectionEvents}
        \cup {<<e, f>> : e \in DetectionEvents, f \in DetectionEvents}

\* the length of the logs buffer: .slice(0, 50)
LogCap == 50

\* what the closure of ws.onmessage reads: autoLog of the render the effect
\* ran in, and through handleAutoCreateWaste and createWaste of that render
\* its currentAccount and contract
Closure(a, acc, con) == [autoLog |-> a, currentAccount |-> acc, contract |-> con]

\* a createWaste transaction sent through a Contract built on `signer`, by
\* the mock button or the auto-log handler, while `account` was the
\* currentAccount its handler read; the code awaiting it belongs to the
\* page that sent it
Tx(signer, wasteType, by, account) ==
    [signer |-> signer, wasteType |-> wasteType, by |-> by,
     account |-> account, page |-> page]

\* the client before it has done anything: Web3Provider and Dashboard just
\* mounted, the mount effects have run (eth_accounts requested, WebSocket
\* being opened)
ClientInit ==
    /\ wallet \in Addresses
    /\ currentAccount = ZeroAddress
    /\ contract = ZeroAddress
    /\ checking = TRUE
    /\ initializing = 0
    /\ autoLog = FALSE
    /\ ws = "connecting"
    /\ handler = Closure(FALSE, ZeroAddress, ZeroAddress)
    /\ logs = << >>
    /\ pending = << >>
    /\ output = ""
    /\ page = 0
    /\ mounted = TRUE
    /\ sockets = 1

\* no client: the page is not loaded
NoClient ==
    /\ wallet = ZeroAddress
    /\ currentAccount = ZeroAddress
    /\ contract = ZeroAddress
    /\ checking = FALSE
    /\ initializing = 0
    /\ autoLog = FALSE
    /\ ws = "closed"
    /\ handler = Closure(FALSE, ZeroAddress, ZeroAddress)
    /\ logs = << >>
    /\ pending = << >>
    /\ output = ""
    /\ page = 0
    /\ mounted = FALSE
    /\ sockets = 0

\* the contract alone, called by any sender
SpecInit == Init /\ NoClient

Spec == SpecInit /\ [][Next]_vars

\* ---- Web3Context.jsx and the Dashboard's effect
\* the effect with the dependencies [autoLog] only
EffectRunsAutoLogOnly(newAutoLog, newAccount) ==
    newAutoLog # autoLog

\* The effect of the Dashboard has the dependencies [autoLog, currentAccount]:
\* it runs again when a render changes one of them, not when contract changes.
EffectRuns(newAutoLog, newAccount) ==
    newAutoLog # autoLog \/ newAccount # currentAccount

\* a WebSocket that is connecting or open; ws.close() ends it
Live(socket) == socket \in {"connecting", "open"}

\* the effect whose cleanup does not call ws.close()
EffectNoCleanup(newAutoLog, newAccount, newContract) ==
    IF mounted /\ EffectRuns(newAutoLog, newAccount)
    THEN /\ ws' = "connecting"
         /\ handler' = Closure(newAutoLog, newAccount, newContract)
         /\ sockets' = sockets + 1
    ELSE UNCHANGED <<ws, handler, sockets>>

\* The Dashboard's effect after a render with the given state: when it runs,
\* its cleanup closes the old WebSocket, and a new one is opened whose
\* onmessage closes over that render.  An unmounted Dashboard has no effect.
Effect(newAutoLog, newAccount, newContract) ==
    IF mounted /\ EffectRuns(newAutoLog, newAccount)
    THEN /\ ws' = "connecting"
         /\ handler' = Closure(newAutoLog, newAccount, newContract)
         /\ sockets' = (IF Live(ws) THEN sockets - 1 ELSE sockets) + 1
    ELSE UNCHANGED <<ws, handler, sockets>>

\* checkWalletIsConnected that sets the account and builds no contract
CheckWalletNoInit ==
    /\ checking
    /\ checking' = FALSE
    /\ IF wallet # ZeroAddress
       THEN /\ currentAccount' = wallet
            /\ Effect(autoLog, wallet, contract)
       ELSE UNCHANGED <<currentAccount, ws, handler, sockets>>
    /\ UNCHANGED <<wallet, contract, initializing, autoLog, logs, pending,
                   output>>
    /\ UNCHANGED <<ledger, last, page, mounted>>

\* checkWalletIsConnected, resumed with the answer to eth_accounts
CheckWalletIsConnected ==
    /\ checking
    /\ checking' = FALSE
    /\ IF wallet # ZeroAddress
       THEN /\ initializing < MaxInits
            /\ currentAccount' = wallet
            /\ initializing' = initializing + 1
            /\ Effect(autoLog, wallet, contract)
       ELSE UNCHANGED <<currentAccount, initializing, ws, handler, sockets>>
    /\ UNCHANGED <<wallet, contract, autoLog, logs, pending, output>>
    /\ UNCHANGED <<ledger, last, page, mounted>>

\* connectWallet, resumed with the answer [a] to eth_requestAccounts: the
\* account the wallet already exposes, or the one the user approves
connectWallet(a) ==
    /\ wallet # ZeroAddress => a = wallet
    /\ initializing < MaxInits
    /\ wallet' = a
    /\ currentAccount' = a
    /\ initializing' = initializing + 1
    /\ Effect(autoLog, a, contract)
    /\ UNCHANGED <<contract, checking, autoLog, logs, pending, output>>
    /\ UNCHANGED <<ledger, last, page, mounted>>

\* handleAccountsChanged without setContract(null) in its else branch
handleAccountsChangedKeepsContract(a) ==
    /\ currentAccount' = a
    /\ UNCHANGED contract
    /\ Effect(autoLog, a, contract)
    /\ UNCHANGED <<checking, initializing, autoLog, logs, pending, output>>
    /\ UNCHANGED <<ledger, last, page, mounted>>

\* handleAccountsChanged(accounts), a = accounts[0], ZeroAddress for []
handleAccountsChanged(a) ==
    /\ IF a # ZeroAddress
       THEN /\ currentAccount' = a
            /\ UNCHANGED contract
            /\ Effect(autoLog, a, contract)
       ELSE /\ currentAccount' = ZeroAddress
            /\ contract' = ZeroAddress
            /\ Effect(autoLog, ZeroAddress, ZeroAddress)
    /\ UNCHANGED <<checking, initializing, autoLog, logs, pending, output>>
    /\ UNCHANGED <<ledger, last, page, mounted>>

\* initializeContract on a provider whose getSigner falls back to the first
\* account of the node when the wallet exposes none
initializeContractNodeSigner ==
    /\ initializing > 0
    /\ initializing' = initializing - 1
    /\ contract' = IF wallet # ZeroAddress THEN wallet ELSE 1
    /\ UNCHANGED <<wallet, currentAccount, checking, autoLog, ws, handler,
                   logs, pending, output, sockets>>
    /\ UNCHANGED <<ledger, last, page, mounted>>

\* initializeContract, resumed after `await provider.getSigner()`: the signer
\* is the account the wallet exposes then; with none getSigner throws, the
\* catch logs it and setContract is not reached
initializeContract ==
    /\ initializing > 0
    /\ initializing' = initializing - 1
    /\ contract' = IF wallet # ZeroAddress THEN wallet ELSE contract
    /\ UNCHANGED <<wallet, currentAccount, checking, autoLog, ws, handler,
                   logs, pending, output, sockets>>
    /\ UNCHANGED <<ledger, last, page, mounted>>

\* createWaste of Web3Context as the render with binding `con` defined it:
\* the transactions it sends (none when !contract)
Web3CreateWaste(con, wasteType, by, account) ==
    IF con = ZeroAddress THEN << >> ELSE <<Tx(con, wasteType, by, account)>>

\* ---- Dashboard
\* the forEach without its test of event_type
RecognizedAny(e) == TRUE

\* e.event_type === 'waste_detected' || e.event_type === 'waste_classified'
Recognized(e) == e.event_type \in {"waste_detected", "waste_classified"}

\* the class name passed on without the fallback
ItemTypeNoFallback(e) == e.class_name

\* e.class_name || "Unknown Waste"
ItemType(e) ==
    IF e.class_name \in {"", Undefined} THEN "Unknown Waste" ELSE e.class_name

\* handleAutoCreateWaste(wasteType) of the render the handler closed over
handleAutoCreateWaste(wasteType) ==
    IF handler.currentAccount = ZeroAddress THEN << >>
    ELSE Web3CreateWaste(handler.contract, wasteType, "auto",
                         handler.currentAccount)

\* newEvents.forEach(...) of ws.onmessage: the transactions sent for a batch
RECURSIVE ForEach(_)
ForEach(batch) ==
    IF batch = << >> THEN << >>
    ELSE (IF Recognized(Head(batch))
          THEN handleAutoCreateWaste(ItemType(Head(batch)))
          ELSE << >>) \o ForEach(Tail(batch))

\* the forEach without the test of autoLog around it
AutoLogAlways(batch) == ForEach(batch)

\* if (autoLog) { newEvents.forEach(...) }
AutoLog(batch) == IF handler.autoLog THEN ForEach(batch) ELSE << >>

\* the buffer filled from the back: [...prev, ...newEvents].slice(0, 50)
SetLogsAppends(newEvents, prev) ==
    LET all == prev \o newEvents
    IN SubSeq(all, 1, IF Len(all) < LogCap THEN Len(all) ELSE LogCap)

\* [...newEvents, ...prev].slice(0, 50)
SetLogs(newEvents, prev) ==
    LET all == newEvents \o prev
    IN SubSeq(all, 1, IF Len(all) < LogCap THEN Len(all) ELSE LogCap)

\* ws.onmessage for a message { type: 'event', events: batch }
onmessage(batch) ==
    /\ ws = "open"
    /\ Len(logs) + Len(batch) <= MaxLogs
    /\ count + Len(pending) + Len(AutoLog(batch)) <= MaxCount
    /\ logs' = SetLogs(batch, logs)
    /\ pending' = pending \o AutoLog(batch)
    /\ UNCHANGED <<wallet, currentAccount, contract, checking, initializing,
                   autoLog, ws, handler, output, sockets>>
    /\ UNCHANGED <<ledger, last, page, mounted>>

\* handleCreateMockWaste, the "create" button
handleCreateMockWaste ==
    /\ mounted
    /\ IF currentAccount = ZeroAddress
       THEN UNCHANGED <<pending, output>>
       ELSE LET txs == Web3CreateWaste(contract, "Plastic Bottle", "mock",
                                       currentAccount)
            IN IF txs = << >>
               THEN /\ output' = AlertCreated
                    /\ UNCHANGED pending
               ELSE /\ count + Len(pending) < MaxCount
                    /\ pending' = pending \o txs
                    /\ UNCHANGED output
    /\ UNCHANGED <<wallet, currentAccount, contract, checking, initializing,
                   autoLog, ws, handler, logs, sockets>>
    /\ UNCHANGED <<ledger, last, page, mounted>>

\* The enable/disable switch of the Auto-Write Bridge. The Dashboard declares
\* setAutoLog with the state but has no control that calls it, so the switch
\* is taken from the specification; changing autoLog re-runs the effect.
toggleAutoLog ==
    /\ mounted
    /\ autoLog' = ~autoLog
    /\ Effect(~autoLog, currentAccount, contract)
    /\ UNCHANGED <<wallet, currentAccount, contract, checking, initializing,
                   logs, pending, output>>
    /\ UNCHANGED <<ledger, last, page, mounted>>

\* ws.onopen
onopen ==
    /\ ws = "connecting"
    /\ ws' = "open"
    /\ UNCHANGED <<wallet, currentAccount, contract, checking, initializing,
                   autoLog, handler, logs, pending, output, sockets>>
    /\ UNCHANGED <<ledger, last, page, mounted>>

\* the transport fails or the server closes the connection; the effect sets
\* no onclose and no onerror
Disrupted ==
    /\ ws \in {"connecting", "open"}
    /\ ws' = "closed"
    /\ sockets' = sockets - 1
    /\ UNCHANGED <<wallet, currentAccount, contract, checking, initializing,
                   autoLog, handler, logs, pending, output>>
    /\ UNCHANGED <<ledger, last, page, mounted>>

\* pending without its i-th transaction
Without(i) == SubSeq(pending, 1, i - 1) \o SubSeq(pending, i + 1, Len(pending))

\* the handler that awaits the transaction reports `text`, unless the page
\* that ran it has been reloaded since
Report(tx, text) == IF tx.page = page THEN text ELSE output

\* `await contract.createWaste(wasteType); await tx.wait()` succeeds: the
\* transaction is mined with msg.sender the Contract's signer
TxMined(i, t) ==
    /\ createWaste(pending[i].signer, pending[i].wasteType, t)
    /\ pending' = Without(i)
    /\ output' = IF pending[i].by = "mock"
                 THEN Report(pending[i], AlertCreated) ELSE output
    /\ UNCHANGED <<wallet, currentAccount, contract, checking, initializing,
                   autoLog, ws, handler, logs, page, mounted, sockets>>

\* a handler that sends a rejected transaction again
TxRejectedRequeues(i) ==
    /\ pending' = Append(Without(i), pending[i])
    /\ output' = Report(pending[i], IF pending[i].by = "mock"
                                    THEN AlertError ELSE AutoLogError)
    /\ UNCHANGED <<wallet, currentAccount, contract, checking, initializing,
                   autoLog, ws, handler, logs, sockets>>
    /\ UNCHANGED <<ledger, last, page, mounted>>

\* the wallet or the node rejects the transaction: createWaste of Web3Context
\* rethrows and the handler's catch reports it
TxRejected(i) ==
    /\ pending' = Without(i)
    /\ output' = Report(pending[i], IF pending[i].by = "mock"
                                    THEN AlertError ELSE AutoLogError)
    /\ UNCHANGED <<wallet, currentAccount, contract, checking, initializing,
                   autoLog, ws, handler, logs, sockets>>
    /\ UNCHANGED <<ledger, last, page, mounted>>

ConnectWallet == \E a \in Senders : connectWallet(a)

AccountsChanged == \E a \in Addresses \ {wallet} :
                       wallet' = a /\ handleAccountsChanged(a)

OnMessage == \E batch \in Batches : onmessage(batch)

Mined == \E i \in 1 .. Len(pending), t \in now .. MaxTime : TxMined(i, t)

Rejected == \E i \in 1 .. Len(pending) : TxRejected(i)

ClientNext ==
    \/ CheckWalletIsConnected
    \/ ConnectWallet
    \/ AccountsChanged
    \/ initializeContract
    \/ toggleAutoLog
    \/ onopen
    \/ Disrupted
    \/ OnMessage
    \/ handleCreateMockWaste
    \/ Mined
    \/ Rejected

\* the client and the contract it writes to
ClientSpecInit == Init /\ ClientInit

ClientSpec == ClientSpecInit /\ [][ClientNext]_vars

\* ---- reload and unmount
\* handleChainChanged: window.location.reload().  The document and all its
\* state are dropped and the page starts again: Web3Provider and Dashboard
\* mount with their initial state and run their mount effects.  What was
\* already handed to the wallet stays in flight there.
handleChainChanged ==
    /\ page < MaxReloads
    /\ page' = page + 1
    /\ currentAccount' = ZeroAddress
    /\ contract' = ZeroAddress
    /\ checking' = TRUE
    /\ initializing' = 0
    /\ autoLog' = FALSE
    /\ mounted' = TRUE
    /\ ws' = "connecting"
    /\ sockets' = 1
    /\ handler' = Closure(FALSE, ZeroAddress, ZeroAddress)
    /\ logs' = << >>
    /\ output' = ""
    /\ UNCHANGED <<wallet, pending>>
    /\ UNCHANGED <<ledger, last>>

\* the Dashboard unmounts and a transaction it awaits is given up
UnmountAborts ==
    /\ mounted
    /\ mounted' = FALSE
    /\ ws' = "closed"
    /\ sockets' = IF Live(ws) THEN sockets - 1 ELSE sockets
    /\ handler' = Closure(FALSE, ZeroAddress, ZeroAddress)
    /\ autoLog' = FALSE
    /\ logs' = << >>
    /\ pending' = SelectSeq(pending, LAMBDA tx : tx.page # page)
    /\ UNCHANGED <<wallet, currentAccount, contract, checking, initializing,
                   output, page>>
    /\ UNCHANGED <<ledger, last>>

\* The Dashboard unmounts: React runs the cleanup of the effect, ws.close(),
\* and drops the component's state.  Calls the component awaits go on.
Unmount ==
    /\ mounted
    /\ mounted' = FALSE
    /\ ws' = "closed"
    /\ sockets' = IF Live(ws) THEN sockets - 1 ELSE sockets
    /\ handler' = Closure(FALSE, ZeroAddress, ZeroAddress)
    /\ autoLog' = FALSE
    /\ logs' = << >>
    /\ UNCHANGED <<wallet, currentAccount, contract, checking, initializing,
                   pending, output, page>>
    /\ UNCHANGED <<ledger, last>>

\* the Dashboard mounts again: initial useState values, first run of the
\* effect with the currentAccount and createWaste of the context
Mount ==
    /\ ~mounted
    /\ mounted' = TRUE
    /\ autoLog' = FALSE
    /\ logs' = << >>
    /\ ws' = "connecting"
    /\ sockets' = sockets + 1
    /\ handler' = Closure(FALSE, currentAccount, contract)
    /\ UNCHANGED <<wallet, currentAccount, contract, checking, initializing,
                   pending, output, page>>
    /\ UNCHANGED <<ledger, last>>

\* one detection event per message is enough where the kind of the events
\* plays no part
Detected == [event_type |-> "waste_detected", class_name |-> "Bottle"]

OnDetected == onmessage(<<Detected>>)

PageNext ==
    \/ CheckWalletIsConnected
    \/ ConnectWallet
    \/ AccountsChanged
    \/ initializeContract
    \/ toggleAutoLog
    \/ onopen
    \/ Disrupted
    \/ OnDetected
    \/ handleCreateMockWaste
    \/ Mined
    \/ Rejected
    \/ handleChainChanged
    \/ Unmount
    \/ Mount

\* the client with reloads of the page and unmounts of the Dashboard
PageSpec == ClientSpecInit /\ [][PageNext]_vars

\* ---- the logs buffer
\* data.events.map(e => ({...e, timestamp: new Date().toISOString()})): every
\* event of a message gets the time the message was received
Stamp(batch, t) ==
    [k \in 1 .. Len(batch) |->
        [event_type |-> batch[k].event_type,
         class_name |-> batch[k].class_name,
         timestamp |-> t]]

\* the sizes of data.events: around the length of the buffer
BatchSizes == {1, 2, LogCap - 1, LogCap, LogCap + 1}

\* the time of the next message: later than the newest entry
NextTime == IF logs = << >> THEN 1 ELSE logs[1].timestamp + 1

\* ws.onmessage up to setLogs, for a message with n events e
ReceiveBatch(n, e) ==
    /\ NextTime <= MaxMessages
    /\ logs' = SetLogs(Stamp([k \in 1 .. n |-> e], NextTime), logs)
    /\ UNCHANGED <<wallet, currentAccount, contract, checking, initializing,
                   autoLog, ws, handler, pending, output, page, mounted,
                   sockets>>
    /\ UNCHANGED <<ledger, last>>

LogsNext == \E n \in BatchSizes, e \in DetectionEvents : ReceiveBatch(n, e)

LogsInit == Init /\ NoClient

\* the buffer alone, fed with messages of any size
LogsSpec == LogsInit /\ [][LogsNext]_vars

\* ================================================================ claims
\* the latest event of the log
LastEvent == events[Len(events)]

\* the WasteCreated events of the log, in order
Created == SelectSeq(events, LAMBDA e : e.kind = "WasteCreated")

\* a record exists under id (the test updateStatus makes)
Exists(id) == wastes[id].id # 0

\* C1: the k-th successful create is assigned id k (ids start at 1, increase
\* by one, are never reused), and count equals the number of successful
\* creates so far, whatever other calls are interleaved.
C1_IdsSequential ==
    /\ Len(Created) = count
    /\ \A k \in 1 .. Len(Created) : Created[k].id = k

\* two creates by different callers with another mutation between them
C1_Witness ==
    /\ count = 2
    /\ Len(events) = 3
    /\ events[2].kind # "WasteCreated"
    /\ events[1].owner # events[3].owner

\* C2: right after a successful create(itemType) by caller C that was
\* assigned id n, get(n) is the record (n, itemType, "Generated", C, now).
C2_CreateStoresRecord ==
    last.op = "createWaste" =>
        /\ last.outcome = Ok
        /\ Len(events) > 0
        /\ LastEvent.kind = "WasteCreated"
        /\ LastEvent.id \in Ids
        /\ getWaste(LastEvent.id) =
               Waste(LastEvent.id, last.str, Generated, last.sender, now)

\* the second record was just created, by a caller other than the first's
C2_Witness ==
    /\ last.op = "createWaste"
    /\ count = 2
    /\ getWaste(2).wasteType = "E-Waste"
    /\ getWaste(1).wasteType = "Plastic"
    /\ getWaste(2).owner # getWaste(1).owner

\* C6: get(0) and get(id) for every id above count are the zero record
\* (NotFound), get(id) for id in 1..count has its id field equal to id, and
\* no stored record has id 0.
C6_GetNotFound ==
    /\ getWaste(0) = ZeroWaste
    /\ \A id \in Ids :
          /\ id > count => getWaste(id) = ZeroWaste
          /\ id \in 1 .. count => getWaste(id).id = id
          /\ getWaste(id) # ZeroWaste => getWaste(id).id # 0

\* a record was given away to address(0) and a caller then tried a transfer
\* of an id that was never created
C6_Witness ==
    /\ count >= 1
    /\ \E id \in 1 .. count : getWaste(id).owner = ZeroAddress
    /\ last.op = "transferWaste"
    /\ last.id > count

\* ------------------------------------------------ claims about single calls
\* The step is a call of updateStatus or transferWaste (`last'` is its
\* receipt; the unprimed variables are the state the call ran in).
IsStatusOrTransferCall == last'.op \in {"updateStatus", "transferWaste"}

\* C3: updateStatus and transferWaste on an existing record by a caller who
\* is not its current owner fail as Unauthorized and leave every record, the
\* counter and the event log unchanged.
C3_NonOwnerRejected ==
    [][ ( /\ IsStatusOrTransferCall
          /\ Exists(last'.id)
          /\ last'.sender # wastes[last'.id].owner )
        => ( /\ last'.outcome = Unauthorized
             /\ UNCHANGED ledger ) ]_vars

\* a non-owner's transferWaste of an existing record was rejected, with
\* two records in the ledger
C3_Witness ==
    /\ last.op = "transferWaste"
    /\ last.outcome = Unauthorized
    /\ count = 2
    /\ Exists(last.id)
    /\ last.sender # getWaste(last.id).owner

\* index in the log of the latest WasteTransferred event of id, 0 if none
LatestTransfer(id) ==
    LET idx == {i \in 1 .. Len(events) :
                   events[i].kind = "WasteTransferred" /\ events[i].id = id}
    IN IF idx = {} THEN 0 ELSE CHOOSE i \in idx : \A j \in idx : j <= i

\* C4: once setOwner(id, B, A) has succeeded with A # B and until the owner
\* changes again, updateStatus and transferWaste on id fail as Unauthorized
\* for A and succeed for B.
C4_AuthFollowsOwner ==
    [][ LET i == LatestTransfer(last'.id) IN
        ( /\ IsStatusOrTransferCall
          /\ i # 0
          /\ events[i].from # events[i].to )
        => ( /\ last'.sender = events[i].from => last'.outcome = Unauthorized
             /\ last'.sender = events[i].to => last'.outcome = Ok ) ]_vars

\* the creator gave record 1 away, the new owner updated its status, and the
\* creator's own updateStatus was then rejected
C4_Witness ==
    /\ Len(events) = 3
    /\ events[2].kind = "WasteTransferred"
    /\ events[2].id = 1
    /\ events[2].from = events[1].owner
    /\ events[2].to # events[2].from
    /\ events[3].kind = "StatusUpdated"
    /\ events[3].id = 1
    /\ last.op = "updateStatus"
    /\ last.id = 1
    /\ last.sender = events[1].owner
    /\ last.outcome = Unauthorized

\* C5: transferWaste(id, B) by the current owner of an existing record
\* succeeds, and afterwards get(id) has owner B and the id, wasteType, status
\* and timestamp it had before.
C5_TransferSetsOwner ==
    [][ ( /\ last'.op = "transferWaste"
          /\ Exists(last'.id)
          /\ last'.sender = wastes[last'.id].owner )
        => ( /\ last'.outcome = Ok
             /\ wastes'[last'.id] =
                    [wastes[last'.id] EXCEPT !.owner = last'.to] ) ]_vars

\* a record whose status had been changed was transferred to another address
C5_Witness ==
    /\ last.op = "transferWaste"
    /\ last.outcome = Ok
    /\ last.to # last.sender
    /\ getWaste(last.id).owner = last.to
    /\ getWaste(last.id).status = "Collected"

\* C7: updateStatus on an id with no record (0, or above count) fails as
\* NotFound for every caller (the existence check comes before the owner
\* check) and changes nothing.
C7_UpdateAbsentNotFound ==
    [][ ( /\ last'.op = "updateStatus"
          /\ ~Exists(last'.id) )
        => ( /\ last'.outcome = NotFound
             /\ UNCHANGED ledger ) ]_vars

\* updateStatus was called on the first id above count, with a record stored
C7_Witness ==
    /\ last.op = "updateStatus"
    /\ last.outcome = NotFound
    /\ count >= 1
    /\ last.id = count + 1

\* C8 (as claimed): transferWaste on an id with no record fails as NotFound,
\* the outcome updateStatus gives, and changes nothing.
C8_TransferAbsentNotFound ==
    [][ ( /\ last'.op = "transferWaste"
          /\ ~Exists(last'.id) )
        => ( /\ last'.outcome = NotFound
             /\ UNCHANGED ledger ) ]_vars

\* the event a successful call must emit
ExpectedEvent ==
    CASE last'.op = "createWaste" -> WasteCreated(count', last'.sender)
      [] last'.op = "updateStatus" -> StatusUpdated(last'.id, last'.str)
      [] last'.op = "transferWaste" ->
             WasteTransferred(last'.id, last'.sender, last'.to)

\* C9: every successful create, updateStatus and transferWaste appends
\* exactly one event of its kind and record id at the end of the log, and a
\* failed call appends none, so the log lists the accepted mutations in order.
C9_OneEventPerMutation ==
    [][ IF last'.outcome = Ok
        THEN events' = Append(events, ExpectedEvent)
        ELSE events' = events ]_vars

\* the log holds one event of each kind and the latest call failed
C9_Witness ==
    /\ Len(events) = 3
    /\ {events[i].kind : i \in 1 .. 3} =
           {"WasteCreated", "StatusUpdated", "WasteTransferred"}
    /\ last.outcome # Ok

\* C10: updateStatus by the owner with the status already stored, and
\* transferWaste by the owner to the owner, succeed, leave every record's
\* fields as they were and append one event each time.
C10_NoDedup ==
    [][ ( /\ Exists(last'.id)
          /\ last'.sender = wastes[last'.id].owner
          /\ \/ /\ last'.op = "updateStatus"
                /\ last'.str = wastes[last'.id].status
             \/ /\ last'.op = "transferWaste"
                /\ last'.to = wastes[last'.id].owner )
        => ( /\ last'.outcome = Ok
             /\ wastes' = wastes
             /\ events' = Append(events, ExpectedEvent) ) ]_vars

\* the creator transferred record 1 to itself and then set the status it
\* already had
C10_Witness ==
    /\ Len(events) = 3
    /\ events[2] = WasteTransferred(1, events[1].owner, events[1].owner)
    /\ events[3] = StatusUpdated(1, Generated)
    /\ last.op = "updateStatus"
    /\ last.outcome = Ok

\* C11: a record, once created, keeps its id, wasteType and timestamp in
\* every later state, whatever calls follow and whoever makes them, and it
\* never stops existing.
C11_CreationFieldsImmutable ==
    [][ \A id \in Ids :
          Exists(id) =>
              /\ wastes'[id].id = wastes[id].id
              /\ wastes'[id].wasteType = wastes[id].wasteType
              /\ wastes'[id].timestamp = wastes[id].timestamp ]_vars

\* record 1 has had its status changed and has been given to another owner
C11_Witness ==
    /\ Len(events) = 3
    /\ getWaste(1).id = 1
    /\ getWaste(1).wasteType = "E-Waste"
    /\ getWaste(1).status = "Collected"
    /\ getWaste(1).owner # events[1].owner

\* ------------------------------------------------- claims about the client
\* The step delivered a message with events to ws.onmessage: only onmessage
\* writes logs, and it puts the new events in front.
Received == logs' # logs
NewEvents == SubSeq(logs', 1, Len(logs') - Len(logs))

\* The step sent createWaste transactions to the ledger: they are appended
\* to pending.
Sent == Len(pending') > Len(pending)
NewTxs == SubSeq(pending', Len(pending) + 1, Len(pending'))

\* the event types section 4.5 names as recognized, as the code spells them
RecognizedTypes == {"waste_detected", "waste_classified"}
RecognizedIn(evs) == SelectSeq(evs, LAMBDA e : e.event_type \in RecognizedTypes)

\* no create was ever sent: none is in flight, mined or rejected
NothingSent == pending = << >> /\ count = 0 /\ output = ""

\* C12: while autoLog is off, a message with detection events of any type
\* sends no create to the ledger, whether or not an account is connected.
C12_DisabledBridgeSendsNothing ==
    [][ (Received /\ ~autoLog) => (~Sent /\ UNCHANGED <<ledger, last>>) ]_vars

\* autoLog is off, an account is connected with a binding the handler sees,
\* a recognized event has been received and nothing was ever sent
C12_Witness ==
    /\ ~autoLog
    /\ currentAccount # ZeroAddress
    /\ handler.contract # ZeroAddress
    /\ ws = "open"
    /\ Len(RecognizedIn(logs)) = 2
    /\ NothingSent

\* C13: an event received with autoLog on while currentAccount is empty sends
\* no create, and it is not queued: creates are sent only by the step that
\* receives the event (or by the button), never by a later step that binds
\* an account.
C13_NoIdentityDiscards ==
    [][ /\ (Received /\ currentAccount = ZeroAddress) => ~Sent
        /\ Sent => (Received \/ \A k \in 1 .. Len(NewTxs) : NewTxs[k].by = "mock")
        /\ (currentAccount = ZeroAddress /\ currentAccount' # ZeroAddress)
               => ~Sent ]_vars

\* autoLog is on, no account is connected, the socket is open, a recognized
\* event has been received and nothing was ever sent
C13_Witness ==
    /\ autoLog
    /\ currentAccount = ZeroAddress
    /\ wallet = ZeroAddress
    /\ ws = "open"
    /\ Len(RecognizedIn(logs)) >= 1
    /\ NothingSent

\* C14 (as claimed): with autoLog on and an account connected (here even
\* with the binding built and no initializeContract running), every
\* recognized event of a message sends its own create.
C14_EveryRecognizedEventCreates ==
    [][ ( /\ Received
          /\ autoLog
          /\ currentAccount # ZeroAddress
          /\ contract # ZeroAddress
          /\ initializing = 0 )
        => Len(NewTxs) = Len(RecognizedIn(NewEvents)) ]_vars

\* C15: an event whose event_type is not waste_detected or waste_classified
\* never sends a create: a message sends at most one create per recognized
\* event, so none when it has only unrecognized events.
C15_UnrecognizedSendsNothing ==
    [][ Received => Len(NewTxs) <= Len(RecognizedIn(NewEvents)) ]_vars

\* the handler has autoLog on, an account and a binding; only an
\* unrecognized event has been received and nothing was ever sent
C15_Witness ==
    /\ handler.autoLog
    /\ handler.currentAccount # ZeroAddress
    /\ handler.contract # ZeroAddress
    /\ ws = "open"
    /\ Len(logs) = 1
    /\ RecognizedIn(logs) = << >>
    /\ NothingSent

\* the item type section 4.5 asks for: the class name, or the fallback label
ExpectedItemType(e) ==
    IF e.class_name \in {"", Undefined} THEN "Unknown Waste" ELSE e.class_name

\* C16: the creates a message sends carry, in order, the class_name of its
\* recognized events, or the fixed label "Unknown Waste" where class_name is
\* absent or empty; the record a mined create stores has that wasteType.
C16_ItemTypeFromClassName ==
    [][ /\ Received =>
            LET rec == RecognizedIn(NewEvents) IN
            /\ Len(NewTxs) \in {0, Len(rec)}
            /\ \A k \in 1 .. Len(NewTxs) :
                   /\ NewTxs[k].by = "auto"
                   /\ NewTxs[k].wasteType = ExpectedItemType(rec[k])
        /\ count' = count + 1 =>
            \E i \in 1 .. Len(pending) :
                /\ pending' = Without(i)
                /\ wastes'[count'].wasteType = pending[i].wasteType ]_vars

\* two auto-logged records: one named after the class, one with the fallback
C16_Witness ==
    /\ count = 2
    /\ Len(logs) = 2
    /\ \E i, j \in 1 .. 2 :
          /\ getWaste(i).wasteType = "Bottle"
          /\ getWaste(j).wasteType = "Unknown Waste"

\* C17 (as claimed): the caller never reports success for a create that sent
\* nothing to the ledger: the success alert appears only in a step that
\* mines a transaction.
C17_SuccessOnlyAfterLedgerCall ==
    [][ (output' = AlertCreated /\ output # AlertCreated)
        => count' = count + 1 ]_vars

\* a step the channel takes by itself: the socket changes state while the
\* switch, the account and the wallet stay as they are
ChannelStep ==
    /\ ClientNext
    /\ ws' # ws
    /\ autoLog' = autoLog
    /\ currentAccount' = currentAccount
    /\ wallet' = wallet

\* C18 (as claimed, in the form a finite run refutes): when the transport is
\* disrupted the channel goes back to open on its own, so in every state
\* where the socket is closed a step of the channel itself is possible.
C18_ClosedChannelReconnects ==
    ws = "closed" => ENABLED ChannelStep

\* C19 (as claimed): a create sent while the account was A that is mined
\* after the account changed to A' is not owned by A'.
C19_NotReattributed ==
    [][ count' = count + 1 =>
            \A i \in 1 .. Len(pending) :
                ( /\ pending' = Without(i)
                  /\ pending[i].account # currentAccount )
                => wastes'[count'].owner # currentAccount ]_vars

\* C20: when the wallet reports no account, currentAccount is cleared and
\* the contract binding is dropped, and while currentAccount is empty
\* neither the button nor the bridge sends a create.
C20_DisconnectStopsCreates ==
    [][ /\ (wallet # ZeroAddress /\ wallet' = ZeroAddress)
            => (currentAccount' = ZeroAddress /\ contract' = ZeroAddress)
        /\ currentAccount = ZeroAddress => ~Sent ]_vars

\* after the button created a record the wallet reported no account; the
\* socket is open and two recognized events have been received
C20_Witness ==
    /\ count = 1
    /\ wallet = ZeroAddress
    /\ currentAccount = ZeroAddress
    /\ contract = ZeroAddress
    /\ ~autoLog
    /\ ws = "open"
    /\ Len(RecognizedIn(logs)) = 2
    /\ pending = << >>
    /\ output = AlertCreated

\* ------------------------------------- claims about concurrent ledger calls
\* The status and owner of every record after the mutations of a log are
\* applied one whole call after the other, starting from no record.
NoRecord == [status |-> "", owner |-> ZeroAddress]

ApplyEvent(s, e) ==
    CASE e.kind = "WasteCreated" ->
             [s EXCEPT ![e.id] = [status |-> Generated, owner |-> e.owner]]
      [] e.kind = "StatusUpdated" -> [s EXCEPT ![e.id].status = e.status]
      [] e.kind = "WasteTransferred" -> [s EXCEPT ![e.id].owner = e.to]

RECURSIVE Replay(_)
Replay(log) ==
    IF log = << >> THEN [i \in Ids |-> NoRecord]
    ELSE ApplyEvent(Replay(SubSeq(log, 1, Len(log) - 1)), log[Len(log)])

\* every transfer of the log starts from the owner that the calls before it
\* left
TransfersInOrder ==
    \A k \in 1 .. Len(events) :
        events[k].kind = "WasteTransferred" =>
            events[k].from = Replay(SubSeq(events, 1, k - 1))[events[k].id].owner

\* the ledger state is the log's mutations applied in the order of the log
Sequential ==
    /\ \A id \in Ids :
           [status |-> wastes[id].status, owner |-> wastes[id].owner]
               = Replay(events)[id]
    /\ count = Len(Created)
    /\ TransfersInOrder

\* the log as it was before the latest call: a successful call has added
\* the last event, a failed one none
LogBefore ==
    IF last.outcome = Ok THEN SubSeq(events, 1, Len(events) - 1) ELSE events

\* C25: calls on the same record submitted at the same time take effect one
\* whole call after the other: in every reachable state the status and
\* owner of every record are those of the logged mutations applied in the
\* order of the log, every logged transfer starts from the owner its
\* predecessors left, and the outcome of the latest updateStatus or
\* transferWaste is decided by the state its predecessors left (it succeeds
\* exactly for that owner).
C25_Linearized ==
    /\ Sequential
    /\ last.op \in {"updateStatus", "transferWaste"} =>
           (last.outcome = Ok
                <=> Replay(LogBefore)[last.id].owner = last.sender)

\* two senders worked on record 1: one set its status and passed it on, the
\* other, now the owner, passed it on again
C25_Witness ==
    /\ Len(events) = 3
    /\ events[2].kind = "StatusUpdated"
    /\ events[3].kind = "WasteTransferred"
    /\ events[2].id = 1
    /\ events[3].id = 1
    /\ wastes[1].status = "Collected"
    /\ wastes[1].owner # events[1].owner

\* C30: each call changes only what it names.  createWaste changes count
\* and the record of the new id; a successful updateStatus changes the
\* status of its record; a successful transferWaste changes the owner of its
\* record; a failed call changes nothing; count never goes down and only
\* createWaste changes it.
C30_FrameEffects ==
    [][ /\ count' >= count
        /\ count' # count => last'.op = "createWaste"
        /\ last'.outcome # Ok => UNCHANGED <<wastes, count, events>>
        /\ last'.op = "createWaste" =>
               /\ count' = count + 1
               /\ \A i \in Ids \ {count'} : wastes'[i] = wastes[i]
        /\ (last'.op = "updateStatus" /\ last'.outcome = Ok) =>
               /\ wastes' = [wastes EXCEPT ![last'.id] =
                      Waste(@.id, @.wasteType, last'.str, @.owner, @.timestamp)]
        /\ (last'.op = "transferWaste" /\ last'.outcome = Ok) =>
               /\ wastes' = [wastes EXCEPT ![last'.id] =
                      Waste(@.id, @.wasteType, @.status, last'.to, @.timestamp)]
      ]_vars

\* a record whose status was set is transferred, next to a second record
C30_Witness ==
    /\ last.op = "transferWaste"
    /\ last.outcome = Ok
    /\ wastes[last.id].status = "Collected"
    /\ wastes[last.id].owner = last.to
    /\ last.to # last.sender

\* ------------------------------------------------ claims about the buffer
\* the entries of the old buffer that the new one still holds: they sit at
\* its end
KeptOld == Len(SelectSeq(logs', LAMBDA x : x.timestamp < NextTime))

Delivered == logs' # logs /\ logs' # << >>

\* the step is initializeContract going on after its await
InitializeDone == initializing' = initializing - 1 /\ page' = page

\* the step is a click on the create button that sends nothing: only the
\* alert changes
SilentClick ==
    /\ output' # output
    /\ pending' = pending
    /\ page' = page
    /\ UNCHANGED ledger

\* C21 (as claimed): a chainChanged notification drops the contract binding
\* and everything that refers to it; a create is sent only through a binding
\* built after it; and a create attempted after the notification while no
\* binding has been built yet fails as not ready instead of reporting
\* success.
C21_ChainChangeHardReset ==
    [][ /\ page' # page =>
               /\ contract' = ZeroAddress
               /\ handler'.contract = ZeroAddress
               /\ initializing' = 0
        /\ Sent => \A k \in 1 .. Len(NewTxs) : NewTxs[k].page = page
        /\ (page > 0 /\ contract = ZeroAddress /\ SilentClick)
               => output' # AlertCreated ]_vars

\* C22: the bridge sends at most one create per delivered event; when a
\* create of the bridge fails the failure is logged, the transaction is
\* gone and is not sent again, and the socket, its handler and the switch
\* stay as they are for the events that follow.
C22_FireAndForget ==
    [][ /\ Received => Len(NewTxs) <= Len(NewEvents)
        /\ (output' = AutoLogError /\ output' # output) =>
               /\ \E i \in 1 .. Len(pending) :
                      pending[i].by = "auto" /\ pending' = Without(i)
               /\ UNCHANGED <<ledger, autoLog, ws, handler, logs>>
        /\ (count' = count /\ Len(pending') < Len(pending)) =>
               \E i \in 1 .. Len(pending) :
                   /\ pending' = Without(i)
                   /\ pending[i].by = "auto" => output' = AutoLogError ]_vars

\* of two events the bridge received, the create of one failed and was
\* logged and the create of the other made a record
C22_Witness ==
    /\ output = AutoLogError
    /\ count = 1
    /\ getWaste(1).wasteType \in {"Bottle", "Unknown Waste"}
    /\ pending = << >>
    /\ Len(RecognizedIn(logs)) = 2

\* C24: once the socket is closed by the cleanup of the effect no event
\* reaches the bridge, and no step that closes or replaces the socket takes
\* a create out of flight: a create leaves only when the ledger has mined
\* it or the call has failed.
C24_CloseDoesNotAbort ==
    [][ /\ Delivered => (mounted /\ ws = "open")
        /\ ws' # ws => pending' = pending
        /\ pending' # pending =>
               \/ Sent
               \/ \E i \in 1 .. Len(pending) :
                      /\ pending' = Without(i)
                      /\ \/ count' = count + 1
                         \/ UNCHANGED ledger /\ page' = page ]_vars

\* the Dashboard is unmounted, its socket closed, and a create that the
\* bridge sent is still in flight
C24_Witness ==
    /\ ~mounted
    /\ ws = "closed"
    /\ \E i \in 1 .. Len(pending) :
           pending[i].by = "auto" /\ pending[i].page = page

\* C26: checkWalletIsConnected connects exactly when the wallet already
\* lists an account, connectWallet connects with the account it returns; in
\* both cases that account becomes currentAccount and initializeContract is
\* started, which binds the contract to the wallet's account; with no
\* account at startup the session stays disconnected without a binding.
C26_ConnectAndRestore ==
    [][ /\ (checking /\ ~checking' /\ wallet # ZeroAddress) =>
               /\ currentAccount' = wallet
               /\ initializing' = initializing + 1
        /\ (checking /\ ~checking' /\ wallet = ZeroAddress) =>
               /\ currentAccount' = ZeroAddress
               /\ contract' = ZeroAddress
               /\ initializing' = initializing
        /\ (initializing' = initializing + 1 /\ checking' = checking) =>
               /\ wallet' # ZeroAddress
               /\ currentAccount' = wallet'
        /\ (InitializeDone /\ wallet # ZeroAddress) => contract' = wallet ]_vars

\* the startup check is over, the wallet's account is the current account
\* and the contract is bound to it
C26_Witness ==
    /\ ~checking
    /\ wallet # ZeroAddress
    /\ currentAccount = wallet
    /\ contract = wallet
    /\ initializing = 0
    /\ page = 1

\* C27: the Dashboard has at most one WebSocket that is not closed, the one
\* of the latest run of its effect; the handler of that socket was made for
\* the current autoLog and currentAccount; an unmounted Dashboard has none.
C27_SingleSubscription ==
    /\ sockets <= 1
    /\ sockets = (IF Live(ws) THEN 1 ELSE 0)
    /\ Live(ws) =>
           /\ mounted
           /\ handler.autoLog = autoLog
           /\ handler.currentAccount = currentAccount
    /\ ~mounted => sockets = 0

\* after the account changed, the socket of the new run of the effect is
\* open and has delivered an event
C27_Witness ==
    /\ mounted
    /\ ws = "open"
    /\ sockets = 1
    /\ currentAccount # ZeroAddress
    /\ handler.currentAccount = currentAccount
    /\ logs # << >>

\* C28 (as claimed): whenever an account is connected, the startup check is
\* over and no initializeContract is running, a contract binding exists and
\* its signer is the current account.
C28_BindingFollowsIdentity ==
    (currentAccount # ZeroAddress /\ ~checking /\ initializing = 0)
        => contract = currentAccount

\* C29: a contract binding exists only while an account is connected, and
\* an initializeContract that finishes after the wallet reported no account
\* installs none.
C29_NoBindingWithoutIdentity ==
    [][ /\ contract' # ZeroAddress => currentAccount' # ZeroAddress
        /\ (InitializeDone /\ currentAccount = ZeroAddress)
               => contract' = ZeroAddress ]_vars

\* the wallet reported no account while initializeContract is still running
C29_Witness ==
    /\ initializing > 0
    /\ wallet = ZeroAddress
    /\ currentAccount = ZeroAddress
    /\ contract = ZeroAddress
    /\ ~checking

====
